---- MODULE Spec2Model ----
(***************************************************************************)
(* Model of scripts/tui_box_generator.py: the visual width measurer        *)
(* (TUIBox.get_visual_width), the box layout engine (TUIBox.render and its *)
(* helpers) and the validator (validate_box).                              *)
(*                                                                         *)
(* A Python string is a sequence of one-character strings.  The characters *)
(* are named by what the width table makes of them:                        *)
(*   "a"          a narrow printable character (1 column)                  *)
(*   "W"          a wide character, CJK or emoji (2 columns)               *)
(*   "c"          a combining / zero-width character (0 columns)           *)
(*   ESC, TAB     control characters (wcwidth gives -1)                    *)
(*   "[" ";" "3" "m"   the printable characters an SGR sequence is made of *)
(*   " "          the ASCII space                                          *)
(*   tl tr bl br hz vt   the six box-drawing glyphs (1 column each)        *)
(***************************************************************************)
EXTENDS Integers, Sequences, FiniteSets, TLC

VARIABLES HAS_WCWIDTH, box, lines, alignment, expected_width, rendered, valid, text, width, pc

vars == <<HAS_WCWIDTH, box, lines, alignment, expected_width, rendered, valid, text, width, pc>>

\* ------------------------------------------------------------------ bounds
MaxContentWidth == 2
MaxLines == 2
MaxTextLen == 4
MaxExpected == 3

\* ------------------------------------------------------------- characters
ESC == "ESC"
TAB == "TAB"
SP == " "
TL == "tl"
TR == "tr"
BL == "bl"
BR == "br"
HZ == "hz"
VT == "vt"

\* Optional[int]: None is the empty tuple, a present value n is <<n>>.
None == <<>>
Some(n) == <<n>>

\* wcwidth.wcwidth of one character: -1 for a control character, 0 for a
\* combining mark, 2 for a wide character, 1 otherwise.
wcwidth(ch) ==
  IF ch \in {ESC, TAB} THEN -1
  ELSE IF ch = "c" THEN 0
  ELSE IF ch = "W" THEN 2
  ELSE 1

\* wcwidth.wcswidth: -1 as soon as one character is a control character,
\* else the sum of the characters' widths.  (The library's special cases for
\* zero-width joiners and variation selectors are outside the alphabet.)
RECURSIVE SumWidth(_, _)
SumWidth(s, i) ==
  IF i > Len(s) THEN 0 ELSE wcwidth(s[i]) + SumWidth(s, i + 1)

wcswidth(s) ==
  IF \E i \in 1..Len(s) : wcwidth(s[i]) < 0 THEN -1 ELSE SumWidth(s, 1)

\* The characters the class [0-9;] of ansi_pattern accepts.
IsParam(ch) == ch \in {"3", ";"}

\* Index just past the longest run of [0-9;] that starts at i.
RECURSIVE ParamEnd(_, _)
ParamEnd(s, i) ==
  IF i <= Len(s) /\ IsParam(s[i]) THEN ParamEnd(s, i + 1) ELSE i

\* ansi_pattern.sub('', s) from index i on: a match of ESC [ [0-9;]* m at the
\* scan position is dropped, any other character is kept and the scan moves on
\* by one (the run is greedy and "m" is no parameter, so nothing backtracks).
RECURSIVE ansi_sub_from(_, _)
ansi_sub_from(s, i) ==
  IF i > Len(s) THEN <<>>
  ELSE IF /\ s[i] = ESC
          /\ i + 1 <= Len(s)
          /\ s[i + 1] = "["
          /\ ParamEnd(s, i + 2) <= Len(s)
          /\ s[ParamEnd(s, i + 2)] = "m"
       THEN ansi_sub_from(s, ParamEnd(s, i + 2) + 1)
       ELSE <<s[i]>> \o ansi_sub_from(s, i + 1)

ansi_sub(s) == ansi_sub_from(s, 1)

\* Mutant of get_visual_width: the escape sequences are not stripped.
get_visual_width_unstripped(s) ==
  IF HAS_WCWIDTH /\ wcswidth(s) >= 0 THEN wcswidth(s) ELSE Len(s)

\* TUIBox.get_visual_width: strip the SGR sequences, then wcswidth when the
\* library was imported and gives a width, else the raw length.
get_visual_width(s) ==
  LET clean_text == ansi_sub(s)
  IN  IF HAS_WCWIDTH /\ wcswidth(clean_text) >= 0
      THEN wcswidth(clean_text)
      ELSE Len(clean_text)

\* validate_box's local helper get_width: no escape sequence is stripped.
get_width(s) ==
  IF HAS_WCWIDTH /\ wcswidth(s) >= 0 THEN wcswidth(s) ELSE Len(s)

\* Python's ch * n: the empty string for n <= 0.
Repeat(ch, n) == IF n > 0 THEN [i \in 1..n |-> ch] ELSE <<>>

Spaces(n) == Repeat(SP, n)

\* --------------------------------------------------------------- TUIBox
h_frame(b) ==
  b.margin_left + b.border_width + b.padding_left
  + b.padding_right + b.border_width + b.margin_right

v_frame(b) ==
  b.margin_top + b.border_width + b.padding_top
  + b.padding_bottom + b.border_width + b.margin_bottom

get_total_width(b) == b.content_width + h_frame(b)

get_interior_width(b) == b.padding_left + b.content_width + b.padding_right

_render_empty_line(b) ==
  IF b.border_width > 0
  THEN Spaces(b.margin_left) \o <<VT>> \o Spaces(get_interior_width(b)) \o <<VT>>
  ELSE Spaces(b.margin_left + get_interior_width(b) + b.margin_right)

\* Mutant of left_pad: the odd column goes to the left.
left_pad_ceil(content_padding) == (content_padding + 1) \div 2

\* left_pad = content_padding // 2 (Python floors, as \div does).
left_pad(content_padding) == content_padding \div 2

\* Mutant of aligned_content: an overflowing line is cut to content_width
\* characters, any other line is left-aligned.
aligned_content_clamped(b, content, al) ==
  IF Len(content) > b.content_width
  THEN SubSeq(content, 1, b.content_width)
  ELSE content \o Spaces(b.content_width - Len(content))

\* Mutant of aligned_content: the escape sequences are dropped from the row.
aligned_content_stripped(b, content, al) ==
  ansi_sub(content) \o Spaces(b.content_width - get_visual_width(content))

\* The alignment branch of _render_content_line.
aligned_content(b, content, al) ==
  LET content_padding == b.content_width - get_visual_width(content)
  IN  IF al = "center"
      THEN Spaces(left_pad(content_padding)) \o content
           \o Spaces(content_padding - left_pad(content_padding))
      ELSE IF al = "right"
      THEN Spaces(content_padding) \o content
      ELSE content \o Spaces(content_padding)

_render_content_line(b, content, al) ==
  IF b.border_width > 0
  THEN Spaces(b.margin_left) \o <<VT>> \o Spaces(b.padding_left)
       \o aligned_content(b, content, al) \o Spaces(b.padding_right) \o <<VT>>
  ELSE Spaces(b.margin_left) \o Spaces(b.padding_left)
       \o aligned_content(b, content, al) \o Spaces(b.padding_right)

\* Mutant of render: the content rows come out in reverse order.
render_reversed(b, ls, al) ==
  LET n == Len(ls)
      border(l, r) == IF b.border_width > 0
                      THEN << Spaces(b.margin_left) \o <<l>>
                              \o Repeat(HZ, get_interior_width(b)) \o <<r>> >>
                      ELSE <<>>
  IN  [i \in 1..b.margin_top |-> <<>>] \o border(TL, TR)
      \o [i \in 1..b.padding_top |-> _render_empty_line(b)]
      \o [i \in 1..n |-> _render_content_line(b, ls[n + 1 - i], al)]
      \o [i \in 1..b.padding_bottom |-> _render_empty_line(b)]
      \o border(BL, BR) \o [i \in 1..b.margin_bottom |-> <<>>]

render(b, ls, al) ==
  LET interior_width == get_interior_width(b)
      margin_rows(n) == [i \in 1..n |-> <<>>]
      top == IF b.border_width > 0
             THEN << Spaces(b.margin_left) \o <<TL>> \o Repeat(HZ, interior_width) \o <<TR>> >>
             ELSE <<>>
      bottom == IF b.border_width > 0
                THEN << Spaces(b.margin_left) \o <<BL>> \o Repeat(HZ, interior_width) \o <<BR>> >>
                ELSE <<>>
      pad_rows(n) == [i \in 1..n |-> _render_empty_line(b)]
      content_rows == [i \in 1..Len(ls) |-> _render_content_line(b, ls[i], al)]
  IN  margin_rows(b.margin_top) \o top \o pad_rows(b.padding_top) \o content_rows
      \o pad_rows(b.padding_bottom) \o bottom \o margin_rows(b.margin_bottom)

\* ---------------------------------------------------------- validate_box
\* Mutant of validate_box: no check for the empty input.
validate_box_vacuous(ls, ew) ==
  \A i \in 1..Len(ls) :
    get_width(ls[i]) = (IF ew = None THEN get_width(ls[1]) ELSE ew[1])

validate_box(ls, ew) ==
  IF ls = <<>> THEN FALSE
  ELSE LET expected == IF ew = None THEN get_width(ls[1]) ELSE ew[1]
       IN  \A i \in 1..Len(ls) : get_width(ls[i]) = expected

\* ------------------------------------------------------------------ inputs
PadValues == {0, 1}
BorderValues == {0, 1, 2}
Alignments == {"left", "center", "right"}

Configs ==
  [content_width : 0..MaxContentWidth,
   padding_left : PadValues, padding_right : PadValues,
   padding_top : PadValues, padding_bottom : PadValues,
   border_width : BorderValues,
   margin_left : PadValues, margin_right : PadValues,
   margin_top : PadValues, margin_bottom : PadValues]

\* The constructor's defaults (content_width aside, which the bounds cap).
DefaultBox ==
  [content_width |-> MaxContentWidth, padding_left |-> 2, padding_right |-> 2,
   padding_top |-> 0, padding_bottom |-> 0, border_width |-> 1,
   margin_left |-> 0, margin_right |-> 0, margin_top |-> 0, margin_bottom |-> 0]

SGR == <<ESC, "[", "3", "m">>

\* Content lines: an empty one, a wide character, a styled narrow character.
ContentTexts ==
  { <<>>, <<"W">>, SGR \o <<"a">> }

SeqsUpTo(S, n) == UNION { [1..k -> S] : k \in 0..n }

\* ------------------------------------------------------- the box machine
Init ==
  /\ HAS_WCWIDTH \in BOOLEAN
  /\ box \in Configs
  /\ lines \in SeqsUpTo(ContentTexts, MaxLines)
  /\ alignment \in Alignments
  /\ expected_width = None
  /\ rendered = <<>>
  /\ valid = FALSE
  /\ text = <<>>
  /\ width = 0
  /\ pc = "start"

Render ==
  /\ pc = "start"
  /\ rendered' = render(box, lines, alignment)
  /\ pc' = "rendered"
  /\ UNCHANGED <<HAS_WCWIDTH, box, lines, alignment, expected_width, valid, text, width>>

ValidateRendered ==
  /\ pc = "rendered"
  /\ \E ew \in {None, Some(get_total_width(box))} :
       /\ expected_width' = ew
       /\ valid' = validate_box(rendered, ew)
  /\ pc' = "validated"
  /\ UNCHANGED <<HAS_WCWIDTH, box, lines, alignment, rendered, text, width>>

Next == Render \/ ValidateRendered

Spec == Init /\ [][Next]_vars

\* ------------------------------------------- the validator on given lines
\* Lines as main's validate command reads them from a file: rows of a box,
\* plain text, styled text.
FileTexts ==
  { <<>>, <<"a">>, <<"W">>, <<VT, "a", "a", VT>>, <<VT, "a", "a", "a", VT>>,
    SGR \o <<"a">>, <<TAB, "a">> }

InitValidate ==
  /\ HAS_WCWIDTH \in BOOLEAN
  /\ box = DefaultBox
  /\ lines \in SeqsUpTo(FileTexts, MaxLines)
  /\ alignment = "left"
  /\ expected_width = None
  /\ rendered = <<>>
  /\ valid = FALSE
  /\ text = <<>>
  /\ width = 0
  /\ pc = "start"

ValidateLines ==
  /\ pc = "start"
  /\ \E ew \in {None} \cup {Some(n) : n \in 0..MaxExpected} :
       /\ expected_width' = ew
       /\ valid' = validate_box(lines, ew)
  /\ pc' = "checked"
  /\ UNCHANGED <<HAS_WCWIDTH, box, lines, alignment, rendered, text, width>>

NextValidate == ValidateLines

SpecValidate == InitValidate /\ [][NextValidate]_vars

\* ------------------------------------------------- the measurer on a text
WidthChars == {ESC, "[", "3", ";", "m", "a", "W", "c", TAB}

InitWidth ==
  /\ HAS_WCWIDTH \in BOOLEAN
  /\ box = DefaultBox
  /\ lines = <<>>
  /\ alignment = "left"
  /\ expected_width = None
  /\ rendered = <<>>
  /\ valid = FALSE
  /\ text \in SeqsUpTo(WidthChars, MaxTextLen)
  /\ width = 0
  /\ pc = "start"

Measure ==
  /\ pc = "start"
  /\ width' = get_visual_width(text)
  /\ pc' = "measured"
  /\ UNCHANGED <<HAS_WCWIDTH, box, lines, alignment, expected_width, rendered, valid, text>>

NextWidth == Measure

SpecWidth == InitWidth /\ [][NextWidth]_vars

\* ================================================================ claims
\* Helpers of the claims' formulas.
Fits(L) == get_visual_width(L) <= box.content_width
AllFit == \A i \in 1..Len(lines) : Fits(lines[i])
Overflows(L) == get_visual_width(L) > box.content_width
HasBorder == IF box.border_width > 0 THEN 1 ELSE 0
Done == pc \in {"rendered", "validated"}

\* Index in rendered of the row of the i-th content line, if the rows come
\* in the documented order.
RowOf(i) == box.margin_top + HasBorder + box.padding_top + i

\* row is pre \o L \o suf for a pre and a suf of spaces and vertical glyphs.
Verbatim(row, L) ==
  \E k \in 0..Len(row) :
    /\ k + Len(L) <= Len(row)
    /\ SubSeq(row, k + 1, k + Len(L)) = L
    /\ \A j \in 1..Len(row) : (j <= k \/ j > k + Len(L)) => row[j] \in {SP, VT}

\* row is the frame (margin, border, padding) around exactly l spaces, L and
\* r spaces.
Framed(row, l, L, r) ==
  LET v == IF box.border_width > 0 THEN <<VT>> ELSE <<>>
  IN  row = Spaces(box.margin_left) \o v \o Spaces(box.padding_left)
            \o Spaces(l) \o L \o Spaces(r) \o Spaces(box.padding_right) \o v

\* C1 (as claimed): when no content line is wider than content_width, every
\* row render returns has visual width total_width.
C1_UniformWidth ==
  (Done /\ AllFit) =>
    \A r \in 1..Len(rendered) : get_visual_width(rendered[r]) = get_total_width(box)

\* C2 (as claimed): when no content line is wider than content_width,
\* validate_box(render(lines, alignment)) is true, with expected_width absent
\* and with expected_width = total_width.  Stated for a box of at least one
\* row: a box of no row at all is the empty input of C4.
C2_RoundTrip ==
  (pc = "validated" /\ AllFit /\ rendered # <<>>) => valid = TRUE

\* C3 (as claimed): on a non-empty input validate_box returns true exactly
\* when every line's visual width, by render's measurer, equals expected_width
\* (the visual width of lines[0] when absent).
C3_ValidateResult ==
  (pc = "checked" /\ lines # <<>>) =>
    LET expected == IF expected_width = None
                    THEN get_visual_width(lines[1]) ELSE expected_width[1]
    IN  valid = (\A i \in 1..Len(lines) : get_visual_width(lines[i]) = expected)

\* C4: validate_box of no lines returns false, whatever expected_width is.
C4_EmptyFails ==
  (pc = "checked" /\ lines = <<>>) => valid = FALSE

C4_Witness ==
  pc = "checked" /\ lines = <<>> /\ expected_width = Some(0) /\ valid = FALSE

RefWidth(clean) ==
  IF \E i \in 1..Len(clean) : clean[i] \in {ESC, TAB}
  THEN Len(clean)
  ELSE 2 * Cardinality({i \in 1..Len(clean) : clean[i] = "W"})
       + Cardinality({i \in 1..Len(clean) : clean[i] \notin {"W", "c"}})

InsertAt(s, p, x) == SubSeq(s, 1, p) \o x \o SubSeq(s, p + 1, Len(s))

SGRs == { <<ESC, "[", "m">>, <<ESC, "[", "3", ";", "3", "m">> }

\* x ends inside an escape sequence: with ESC, or with ESC [ and parameters.
Dangling(x) ==
  \E k \in 1..Len(x) :
    /\ x[k] = ESC
    /\ k = Len(x) \/ (x[k + 1] = "[" /\ \A j \in (k + 2)..Len(x) : IsParam(x[j]))

\* C6 (as claimed): visual_width is the reference width of the stripped text,
\* and inserting an SGR sequence anywhere leaves it unchanged.
C6_Original ==
  pc = "measured" =>
    /\ width >= 0
    /\ width = RefWidth(ansi_sub(text))
    /\ \A p \in 0..Len(text) : \A x \in SGRs :
         get_visual_width(InsertAt(text, p, x)) = width

\* C6 (amended): with the width library imported, visual_width is the
\* reference width of the stripped text, without it the length of the stripped
\* text; inserting an SGR sequence leaves it unchanged unless the text before
\* the insertion point ends inside an escape sequence.
C6_VisualWidth ==
  pc = "measured" =>
    /\ width >= 0
    /\ HAS_WCWIDTH => width = RefWidth(ansi_sub(text))
    /\ ~HAS_WCWIDTH => width = Len(ansi_sub(text))
    /\ \A p \in 0..Len(text) : \A x \in SGRs :
         ~Dangling(SubSeq(text, 1, p)) =>
           get_visual_width(InsertAt(text, p, x)) = width

C6_Witness ==
  /\ pc = "measured" /\ HAS_WCWIDTH
  /\ text = <<ESC, "[", "m", "W">> /\ width = 2

\* C7 (as claimed): under center alignment the row of L has slack // 2 spaces
\* left of L and slack - slack // 2 right of it, one more on the right for an
\* odd slack and as many for an even one, whatever the slack.
C7_Original ==
  (Done /\ alignment = "center") =>
    \A i \in 1..Len(lines) :
      LET slack == box.content_width - get_visual_width(lines[i])
      IN  \E l \in 0..MaxContentWidth : \E r \in 0..MaxContentWidth :
            /\ Framed(rendered[RowOf(i)], l, lines[i], r)
            /\ 2 * l <= slack /\ slack < 2 * l + 2
            /\ r = slack - l
            /\ r - l = slack % 2

\* C7 (amended): the same for a line that fits, slack >= 0.
C7_CenterSplit ==
  (Done /\ alignment = "center") =>
    \A i \in 1..Len(lines) :
      LET slack == box.content_width - get_visual_width(lines[i])
      IN  slack >= 0 =>
            \E l \in 0..MaxContentWidth : \E r \in 0..MaxContentWidth :
              /\ Framed(rendered[RowOf(i)], l, lines[i], r)
              /\ 2 * l <= slack /\ slack < 2 * l + 2
              /\ r = slack - l
              /\ r - l = slack % 2

C7_Witness ==
  /\ pc = "rendered" /\ alignment = "center" /\ Len(lines) = 2
  /\ box.content_width - get_visual_width(lines[1]) = 1
  /\ box.content_width - get_visual_width(lines[2]) = 2

\* C8: the row of a content line holds the line unchanged as a contiguous
\* substring, and nothing else but spaces and the vertical glyph.
C8_Verbatim ==
  Done => \A i \in 1..Len(lines) : Verbatim(rendered[RowOf(i)], lines[i])

C8_Witness ==
  /\ pc = "rendered"
  /\ \E i \in 1..Len(lines) :
       /\ lines[i] = SGR \o <<"a">>
       /\ Overflows(lines[i])
       /\ Verbatim(rendered[RowOf(i)], lines[i])
  /\ \E i \in 1..Len(lines) : lines[i] = <<"W">> /\ alignment = "center"

IsBlankRow(row) == \A j \in 1..Len(row) : row[j] = SP

IsBorderRow(row, l, r) ==
  /\ Len(row) >= 2
  /\ row[Len(row)] = r
  /\ \E k \in 1..(Len(row) - 1) :
       /\ row[k] = l
       /\ \A j \in 1..(k - 1) : row[j] = SP
       /\ \A j \in (k + 1)..(Len(row) - 1) : row[j] = HZ

IsEmptyInterior(row) ==
  /\ \A j \in 1..Len(row) : row[j] \in {SP, VT}
  /\ Cardinality({j \in 1..Len(row) : row[j] = VT}) = 2 * HasBorder
  /\ HasBorder = 1 => row[Len(row)] = VT

\* C9: render returns, in this order and nothing else: margin_top blank rows,
\* a top border row iff border_width > 0, padding_top empty interior rows, one
\* content row per line in input order, padding_bottom empty interior rows, a
\* bottom border row iff border_width > 0, margin_bottom blank rows.
C9_RowOrder ==
  Done =>
    LET n == Len(lines)
        a == box.margin_top
        b == a + HasBorder
        c == b + box.padding_top
        d == c + n
        e == d + box.padding_bottom
        f == e + HasBorder
    IN  /\ Len(rendered) = f + box.margin_bottom
        /\ \A k \in 1..Len(rendered) :
             /\ k <= a => IsBlankRow(rendered[k])
             /\ (a < k /\ k <= b) => IsBorderRow(rendered[k], TL, TR)
             /\ (b < k /\ k <= c) => IsEmptyInterior(rendered[k])
             /\ (c < k /\ k <= d) => Verbatim(rendered[k], lines[k - c])
             /\ (d < k /\ k <= e) => IsEmptyInterior(rendered[k])
             /\ (e < k /\ k <= f) => IsBorderRow(rendered[k], BL, BR)
             /\ f < k => IsBlankRow(rendered[k])

C9_Witness ==
  /\ pc = "rendered" /\ Len(lines) = 2 /\ lines[1] = <<"W">> /\ lines[2] = SGR \o <<"a">>
  /\ box.border_width > 0 /\ box.margin_top = 1 /\ box.padding_top = 1
  /\ box.padding_bottom = 1 /\ box.margin_bottom = 1
  /\ Len(rendered) = 8

\* C10 (as claimed): render returns len(lines) + v_frame rows.
C10_Height ==
  Done => Len(rendered) = Len(lines) + v_frame(box)

====
